---- MODULE Spec2Model ----
(***************************************************************************)
(* A model of storybook/storybook.go (package storybook of templ): the     *)
(* insertion-ordered SortedMap, the reflective dispatcher executeTemplate, *)
(* the preview router and the Build pipeline.                              *)
(***************************************************************************)
EXTENDS Integers, Sequences, FiniteSets, TLC

\* ------------------------------------------------------------------ bounds
MaxAdds == 4
MaxRegs == 2
MaxRuns == 2
MaxCalls == 3
MaxRequests == 2
MaxOps == 3

Keys == {"a", "b"}
Values == {1, 2}

VARIABLES
    sm,        \* the SortedMap: [keys: sequence of keys, internal: key -> value]
    addLog,    \* history: the Add calls made so far, <<key, value>> each
    out,       \* the bytes the last MarshalJSON call returned (a token sequence)
    outAt      \* history: the number of Add calls made when out was produced

smVars == <<sm, addLog, out, outAt>>

VARIABLES
    Config,    \* Storybook.Config: component name -> *Conf
    Handlers,  \* Storybook.Handlers: component name -> handler (NewHandler's closure)
    regCount,  \* the number of AddComponent calls made so far
    RoutePrefix, \* Storybook.RoutePrefix
    lastAdd,   \* history: name -> the f and args of the latest AddComponent call
    req,       \* the last request served
               \* (with, as history, the Handlers entry of the name it asks for)
    resp       \* its outcome: the route taken, status, body, handler and call

regVars == <<Config, Handlers, regCount, RoutePrefix, lastAdd>>

VARIABLES
    fs,        \* the working directory sh.Path on disk
    cancelled, \* ctx.Err() != nil
    pc,        \* where Build is
    err,       \* Build's named result err
    configHasChanged, \* Build's local configHasChanged
    run,       \* history of the current Build run
    runs,      \* the number of Build runs started
    confHist,  \* history: the previous configure stage, registrations since
    ls         \* ListenAndServeWithContext: driver, goroutine, shared err

buildVars == <<fs, cancelled, pc, err, configHasChanged, run, runs, confHist, ls>>

VARIABLES
    cell,      \* the values the valuePtr pointers of ObjectArg point to
    inflight,  \* the requests to an object component being handled, by goroutine
    served     \* the number of such requests accepted so far

objVars == <<cell, inflight, served>>

VARIABLES
    mu,        \* SortedMap.m: 0 when unlocked, else the goroutine holding it
    th,        \* the goroutines calling Add and MarshalJSON: position and locals
    ops        \* the number of calls they have started

muVars == <<mu, th, ops>>
vars == <<smVars, regVars, req, resp, buildVars, objVars, muVars>>

\* ------------------------------------------------------------- SortedMap
\* NewSortedMap: an empty map and an empty key list.
NewSortedMap == [keys |-> <<>>, internal |-> <<>>]

\* map[key] = value on a Go map, modelled as a function on the keys present.
MapSet(m, key, value) ==
    [k \in (DOMAIN m) \cup {key} |-> IF k = key THEN value ELSE m[k]]

SetToSeq(S) ==
    LET RECURSIVE Build(_)
        Build(T) == IF T = {} THEN <<>>
                    ELSE LET x == CHOOSE y \in T : TRUE
                         IN <<x>> \o Build(T \ {x})
    IN Build(S)

\* A plausible slip: an existing key is updated in place and not appended.
SortedMapAddInPlace(m, key, value) ==
    [keys |-> IF key \in DOMAIN m.internal THEN m.keys ELSE Append(m.keys, key),
     internal |-> MapSet(m.internal, key, value)]

\* SortedMap.Add: append the key, then set internal[key].
SortedMapAdd(m, key, value) ==
    [keys |-> Append(m.keys, key),
     internal |-> MapSet(m.internal, key, value)]

\* json.Encoder.Encode of a string / of a value: the encoding and a newline.
EncodeString(s) == << <<"string", s>>, <<"nl", "">> >>
EncodeValue(v) == << <<"value", v>>, <<"nl", "">> >>
Rune(c) == << <<"rune", c>> >>

RECURSIVE MarshalLoop(_, _, _)
MarshalLoop(m, i, b) ==
    IF i > Len(m.keys) THEN b
    ELSE LET k == m.keys[i]
             b1 == b \o EncodeString(k) \o Rune(":") \o EncodeValue(m.internal[k])
             b2 == IF i - 1 < Len(m.keys) - 1 THEN b1 \o Rune(",") ELSE b1
         IN MarshalLoop(m, i + 1, b2)

\* A plausible slip: ranging over the map instead of over the key list.
MarshalJSONOverMap(m) ==
    MarshalLoop([keys |-> SetToSeq(DOMAIN m.internal), internal |-> m.internal],
                1, Rune("{")) \o Rune("}")

\* SortedMap.MarshalJSON: '{', then key ':' value for each entry of keys, ','
\* between the entries, then '}'.
MarshalJSON(m) == MarshalLoop(m, 1, Rune("{")) \o Rune("}")

NoOutput == <<>>

InitSM ==
    /\ sm = NewSortedMap
    /\ addLog = <<>>
    /\ out = NoOutput
    /\ outAt = 0

Add(key, value) ==
    /\ Len(addLog) < MaxAdds
    /\ sm' = SortedMapAdd(sm, key, value)
    /\ addLog' = Append(addLog, <<key, value>>)
    /\ UNCHANGED <<out, outAt, regVars, req, resp, buildVars, objVars, muVars>>

Marshal ==
    /\ out' = MarshalJSON(sm)
    /\ outAt' = Len(addLog)
    /\ UNCHANGED <<sm, addLog, regVars, req, resp, buildVars, objVars, muVars>>

NextSM ==
    \/ \E key \in Keys, value \in Values : Add(key, value)
    \/ Marshal

\* ------------------------------------------------- values and descriptors
\* Go values carried in interface{}: the dynamic type and the payload.
GoString(s) == <<"string", s>>
GoBool(b) == <<"bool", IF b THEN "true" ELSE "false">>
TypeOf(v) == v[1]

\* url.Values.Get: the value of the key, "" when the key is absent.
QueryGet(q, name) == IF name \in DOMAIN q THEN q[name] ELSE ""

\* TextArg and BooleanArg: the descriptor, its Get closure named by kind.
TextArg(name, value) ==
    [Name |-> name, Value |-> GoString(value), Control |-> "text", Get |-> "text"]
BooleanArg(name, value) ==
    [Name |-> name, Value |-> GoBool(value), Control |-> "boolean", Get |-> "boolean"]

Nil == "nil"

\* Integers beyond TLC's own range: the sign and the magnitude as decimal
\* digits, most significant first, without leading zeros (none for 0).
IntZero == [neg |-> FALSE, mag |-> <<>>]
GoInt(i) == <<"int", i>>
DigitChars == <<"0", "1", "2", "3", "4", "5", "6", "7", "8", "9">>
IsDigit(c) == \E d \in 1..10 : DigitChars[d] = c
DigitVal(c) == (CHOOSE d \in 1..10 : DigitChars[d] = c) - 1
MagLess(x, y) ==
    \/ Len(x) < Len(y)
    \/ /\ Len(x) = Len(y)
       /\ \E i \in 1..Len(x) : x[i] < y[i] /\ \A j \in 1..(i - 1) : x[j] = y[j]
\* n * 10 + d
MagShiftAdd(n, d) == IF n = <<>> /\ d = 0 THEN <<>> ELSE Append(n, d)

\* 1<<64 - 1, 1<<63 and 1<<63 - 1
MaxUint64 == <<1, 8, 4, 4, 6, 7, 4, 4, 0, 7, 3, 7, 0, 9, 5, 5, 1, 6, 1, 5>>
Cutoff63 == <<9, 2, 2, 3, 3, 7, 2, 0, 3, 6, 8, 5, 4, 7, 7, 5, 8, 0, 8>>
MaxInt64 == <<9, 2, 2, 3, 3, 7, 2, 0, 3, 6, 8, 5, 4, 7, 7, 5, 8, 0, 7>>

\* strconv.ParseUint(s, 10, 64): digits accumulated left to right; a character
\* that is no digit is a syntax error, a value past 1<<64 - 1 a range error
\* returned with the maximum, whichever comes first.
ParseUint(s) ==
    LET RECURSIVE Loop(_, _)
        Loop(i, n) ==
            IF i > Len(s) THEN [un |-> n, err |-> Nil]
            ELSE IF ~IsDigit(s[i]) THEN [un |-> <<>>, err |-> "syntax"]
            ELSE LET n1 == MagShiftAdd(n, DigitVal(s[i]))
                 IN IF MagLess(MaxUint64, n1) THEN [un |-> MaxUint64, err |-> "range"]
                    ELSE Loop(i + 1, n1)
    IN IF s = <<>> THEN [un |-> <<>>, err |-> "syntax"] ELSE Loop(1, <<>>)

\* strconv.ParseInt(s, 10, 64): an optional sign, ParseUint on the rest; on a
\* syntax error 0, on a value out of range the nearest of 1<<63 - 1 and
\* -1<<63, both with an error.
ParseInt(s) ==
    IF s = <<>> THEN [i |-> IntZero, err |-> "syntax"]
    ELSE LET neg == s[1] = "-"
             rest == IF s[1] \in {"+", "-"} THEN Tail(s) ELSE s
             u == ParseUint(rest)
         IN IF u.err = "syntax" THEN [i |-> IntZero, err |-> "syntax"]
            ELSE IF ~neg /\ ~MagLess(u.un, Cutoff63)
            THEN [i |-> [neg |-> FALSE, mag |-> MaxInt64], err |-> "range"]
            ELSE IF neg /\ MagLess(Cutoff63, u.un)
            THEN [i |-> [neg |-> TRUE, mag |-> Cutoff63], err |-> "range"]
            ELSE [i |-> [neg |-> neg /\ u.un # <<>>, mag |-> u.un], err |-> Nil]

\* IntArgConf{Min, Max, Step}: each pointer is nil (<<>>) or points to an int.
\* IntArg: the control lists "type" and the bounds that are given.
IntArg(name, value, conf) ==
    [Name |-> name, Value |-> GoInt(value),
     Control |-> [k \in {"type"} \cup {f \in {"min", "max", "step"} : conf[f] # <<>>} |->
                     IF k = "type" THEN <<"number">> ELSE conf[k]],
     Get |-> "int"]

\* The characters of q.Get(name): none when the key is absent.
QueryChars(q, name) == IF name \in DOMAIN q THEN q[name] ELSE <<>>

\* Arg.Get(q), by the closure each factory builds. IntArg drops ParseInt's
\* error and converts to int, which is as wide as int64 on a 64-bit build.
ArgGet(arg, q) ==
    CASE arg.Get = "text" -> GoString(QueryGet(q, arg.Name))
      [] arg.Get = "boolean" -> GoBool(QueryGet(q, arg.Name) = "true")
      [] arg.Get = "int" -> GoInt(ParseInt(QueryChars(q, arg.Name)).i)

\* ---------------------------------------------------- story configuration
\* Conf.AddStory: the map m built from args is dropped; the story appended
\* carries a fresh, empty SortedMap.
AddStory(c, name, args) ==
    [c EXCEPT !.Stories = Append(c.Stories, [Name |-> name, Args |-> NewSortedMap])]

\* NewConf: Args and ArgTypes filled from the descriptors in declared order,
\* then the story "Default".
NewConf(title, args) ==
    LET RECURSIVE Fill(_, _)
        Fill(c, i) ==
            IF i > Len(args) THEN c
            ELSE Fill([c EXCEPT
                         !.Args = SortedMapAdd(c.Args, args[i].Name, args[i].Value),
                         !.ArgTypes = SortedMapAdd(c.ArgTypes, args[i].Name,
                                                   [control |-> args[i].Control])],
                      i + 1)
        c0 == [Title |-> title,
               Parameters |-> [Server |-> [id |-> title]],
               Args |-> NewSortedMap,
               ArgTypes |-> NewSortedMap,
               Stories |-> <<>>]
    IN AddStory(Fill(c0, 1), "Default", <<>>)

\* ------------------------------------------------------------ dispatcher
\* fmt's %s of a string, of a func value (a bad-verb rendering of the type and
\* the code address, never the name), and %d of an int.
FmtSString(s) == <<"%s", s>>
FmtSFunc(fn) == <<"%!s(func)", fn.id>>
FmtD(n) == <<"%d", n>>

NoErr == [fmt |-> "", args |-> <<>>]
NoComponent == <<>>

\* reflect.Value.Call panics unless every value is assignable to its parameter.
Assignable(fn, values) ==
    \A i \in 1..Len(values) : TypeOf(values[i]) = fn.params[i]

\* templ.Component type assertion on the single result.
IsComponent(result) == result = "component"

\* A plausible slip: the type assertion on the single result left out.
CheckResultNoAssert(name, fn, values) ==
    IF Len(fn.results) # 1
    THEN [kind |-> "error",
          err |-> [fmt |-> "templ-storybook: function %s must return a templ.Component",
                   args |-> <<FmtSString(name)>>],
          output |-> NoComponent, called |-> TRUE]
    ELSE [kind |-> "ok", err |-> NoErr,
          output |-> <<"component", fn.id, values>>, called |-> TRUE]

\* executeTemplate after v.Call(argv): one result, and that a templ.Component.
CheckResult(name, fn, values) ==
    IF Len(fn.results) # 1
    THEN [kind |-> "error",
          err |-> [fmt |-> "templ-storybook: function %s must return a templ.Component",
                   args |-> <<FmtSString(name)>>],
          output |-> NoComponent, called |-> TRUE]
    ELSE IF ~IsComponent(fn.results[1])
    THEN [kind |-> "error",
          err |-> [fmt |-> "templ-storybook: result of function %s is not a templ.Component",
                   args |-> <<FmtSString(name)>>],
          output |-> NoComponent, called |-> TRUE]
    ELSE [kind |-> "ok", err |-> NoErr,
          output |-> <<"component", fn.id, values>>, called |-> TRUE]

\* executeTemplate: the outcome ("ok", "error" or "panic"), the error, the
\* component returned, and whether the constructor was called.
executeTemplate(name, fn, values) ==
    IF ~fn.isFunc
    THEN \* t.NumIn() on a type that is no func panics
         [kind |-> "panic", err |-> NoErr, output |-> NoComponent, called |-> FALSE]
    ELSE IF Len(fn.params) # Len(values)
    THEN [kind |-> "error",
          err |-> [fmt |-> "templ-storybook: component %s expects %d argument, but %d were provided",
                   args |-> <<FmtSFunc(fn), FmtD(Len(fn.params)), FmtD(Len(values))>>],
          output |-> NoComponent, called |-> FALSE]
    ELSE IF ~Assignable(fn, values)
    THEN \* v.Call(argv) panics
         [kind |-> "panic", err |-> NoErr, output |-> NoComponent, called |-> FALSE]
    ELSE CheckResult(name, fn, values)

\* ---------------------------------------------------------------- router
NoRes == [kind |-> "none", err |-> NoErr, output |-> NoComponent, called |-> FALSE]
NoFn == [id |-> "", isFunc |-> FALSE, params |-> <<>>, results |-> <<>>]
NoCall == [made |-> FALSE, name |-> "", fn |-> NoFn, values |-> <<>>, res |-> NoRes]

\* A request path is a sequence of tokens, "/" being the separator.
Split(p) ==
    LET RECURSIVE S(_, _, _)
        S(i, cur, acc) ==
            IF i > Len(p) THEN Append(acc, cur)
            ELSE IF p[i] = "/" THEN S(i + 1, <<>>, Append(acc, cur))
            ELSE S(i + 1, Append(cur, p[i]), acc)
    IN S(1, <<>>, <<>>)

\* storybookPreviewMatcher.Extract: the path matches /storybook_preview/{name}
\* segment by segment, and {name} is bound to the second segment.
Extract(p) ==
    LET segs == Split(p)
        ok == /\ Len(segs) = 3
              /\ segs[1] = <<>>
              /\ segs[2] = <<"storybook_preview">>
              /\ Len(segs[3]) = 1
    IN [ok |-> ok, name |-> IF ok THEN segs[3][1] ELSE ""]

\* path.Join(sh.RoutePrefix, "/storybook_preview/"): joined and cleaned, so
\* the trailing slash is dropped.
PreviewPrefix(prefix) ==
    LET trimmed == IF Len(prefix) > 0 /\ prefix[Len(prefix)] = "/"
                   THEN SubSeq(prefix, 1, Len(prefix) - 1) ELSE prefix
    IN trimmed \o <<"/", "storybook_preview">>

\* strings.HasPrefix
HasPrefix(p, pre) == Len(pre) <= Len(p) /\ SubSeq(p, 1, Len(pre)) = pre

\* http.NotFound and http.Error
NotFound == [route |-> "preview", status |-> 404, body |-> <<"404 page not found">>,
             handler |-> "", call |-> NoCall]
HttpError(e, code, name, call) ==
    [route |-> "preview", status |-> code, body |-> <<"error", e>>,
     handler |-> name, call |-> call]

\* templ.Handler(component).ServeHTTP: the component rendered with status 200.
TemplHandlerServeHTTP(component, name, call) ==
    [route |-> "preview", status |-> 200, body |-> <<"rendered", component>>,
     handler |-> name, call |-> call]

\* NewHandler: the closure over name, f and args.
NewHandler(name, f, args) == [name |-> name, f |-> f, args |-> args]

\* The closure of NewHandler once the arguments are extracted: dispatch, 500 with
\* the error text or the component handed to templ.Handler. A panic is caught
\* by net/http, which drops the connection (status 0 here).
HandlerRespond(h, argv) ==
    LET res == executeTemplate(h.name, h.f, argv)
        call == [made |-> TRUE, name |-> h.name, fn |-> h.f, values |-> argv, res |-> res]
    IN IF res.kind = "panic"
       THEN [route |-> "preview", status |-> 0, body |-> <<>>, handler |-> h.name, call |-> call]
       ELSE IF res.kind = "error"
       THEN HttpError(res.err, 500, h.name, call)
       ELSE TemplHandlerServeHTTP(res.output, h.name, call)

\* The closure's ServeHTTP for descriptors whose Get reads the query only.
HandlerServeHTTP(h, r) ==
    HandlerRespond(h, [i \in 1..Len(h.args) |-> ArgGet(h.args[i], r.query)])

\* A plausible slip: the registry lookup's miss branch left out, so that an
\* unknown name falls through to some registered handler.
previewHandlerNoMiss(handlers, r) ==
    LET ex == Extract(r.path)
    IN IF ~ex.ok \/ DOMAIN handlers = {} THEN NotFound
       ELSE IF ex.name \notin DOMAIN handlers
       THEN HandlerServeHTTP(handlers[CHOOSE n \in DOMAIN handlers : TRUE], r)
       ELSE HandlerServeHTTP(handlers[ex.name], r)

\* Storybook.previewHandler
previewHandler(handlers, r) ==
    LET ex == Extract(r.path)
    IN IF ~ex.ok THEN NotFound
       ELSE IF ex.name \notin DOMAIN handlers THEN NotFound
       ELSE HandlerServeHTTP(handlers[ex.name], r)

\* sh.StaticHandler.ServeHTTP: the file server, outside the registry.
StaticServeHTTP(r) ==
    [route |-> "static", status |-> 200, body |-> <<"file", r.path>>,
     handler |-> "", call |-> NoCall]

\* Storybook.ServeHTTP: preview paths to previewHandler, the rest to the
\* static handler.
ServeHTTP(handlers, prefix, r) ==
    IF HasPrefix(r.path, PreviewPrefix(prefix))
    THEN previewHandler(handlers, r)
    ELSE StaticServeHTTP(r)

\* ------------------------------------------------------- inputs (bounded)
Names == {"button", "card"}

Constructors ==
    { [id |-> "button", isFunc |-> TRUE, params |-> <<"string">>, results |-> <<"component">>],
      [id |-> "pair", isFunc |-> TRUE, params |-> <<"string", "bool">>, results |-> <<"component">>],
      [id |-> "two", isFunc |-> TRUE, params |-> <<"string">>, results |-> <<"component", "error">>],
      [id |-> "none", isFunc |-> TRUE, params |-> <<"string">>, results |-> <<>>],
      [id |-> "str", isFunc |-> TRUE, params |-> <<"string">>, results |-> <<"string">>],
      [id |-> "notfunc", isFunc |-> FALSE, params |-> <<>>, results |-> <<>>] }

ArgLists ==
    { <<TextArg("text", "World")>>,
      <<BooleanArg("on", TRUE)>>,
      <<TextArg("text", "World"), BooleanArg("on", FALSE)>>,
      <<TextArg("text", "World"), BooleanArg("on", FALSE), TextArg("label", "x")>> }

Queries ==
    { [text |-> "Hi", on |-> "true"], [on |-> "TRUE", label |-> "L"], <<>> }

Paths ==
    {<<"/", "storybook_preview", "/", n>> : n \in Names \cup {"ghost"}}
      \cup { <<"/", "storybook_preview">>,
             <<"/", "storybook_preview", "/", "button", "/", "extra">>,
             <<"/", "index.html">>,
             <<"/", "prod", "/", "storybook_preview", "/", "button">> }

RoutePrefixes == {<<>>, <<"/", "prod", "/">>}

NoResp == [route |-> "none", status |-> 0, body |-> <<>>, handler |-> "", call |-> NoCall]

\* ----------------------------------------------------- registry and serving
\* New: empty Config and Handlers.
InitRegistry ==
    /\ Config = <<>>
    /\ Handlers = <<>>
    /\ regCount = 0
    /\ RoutePrefix \in RoutePrefixes
    /\ lastAdd = <<>>

InitPreview ==
    /\ req = [path |-> <<>>, query |-> <<>>, entry |-> <<>>]
    /\ resp = NoResp

\* The history kept with every AddComponent call: what the call was given.
Recorded(name, f, args) ==
    [n \in (DOMAIN lastAdd) \cup {name} |->
        IF n = name THEN [f |-> f, args |-> args] ELSE lastAdd[n]]

\* A plausible slip: a name already registered keeps its configuration.
AddComponentKeepConf(name, f, args) ==
    /\ pc \in {"idle", "done"} /\ ls.pc = "none"
    /\ Config' = IF name \in DOMAIN Config THEN Config
                 ELSE MapSet(Config, name, NewConf(name, args))
    /\ Handlers' = MapSet(Handlers, name, NewHandler(name, f, args))
    /\ regCount' = regCount + 1
    /\ lastAdd' = Recorded(name, f, args)
    /\ confHist' = [confHist EXCEPT !.regSince = TRUE]
    /\ UNCHANGED <<smVars, objVars, muVars, RoutePrefix, req, resp, fs, cancelled, pc, err, configHasChanged, run, runs, ls>>

\* Storybook.AddComponent. Registration is single-threaded and precedes the
\* listener: it is not interleaved with a running Build.
AddComponent(name, f, args) ==
    /\ pc \in {"idle", "done"} /\ ls.pc = "none"
    /\ Config' = MapSet(Config, name, NewConf(name, args))
    /\ Handlers' = MapSet(Handlers, name, NewHandler(name, f, args))
    /\ regCount' = regCount + 1
    /\ lastAdd' = Recorded(name, f, args)
    /\ confHist' = [confHist EXCEPT !.regSince = TRUE]
    /\ UNCHANGED <<smVars, objVars, muVars, RoutePrefix, req, resp, fs, cancelled, pc, err, configHasChanged, run, runs, ls>>

\* The path has the form /storybook_preview/{name}.
IsPreviewPath(p) ==
    /\ Len(p) = 4
    /\ p[1] = "/" /\ p[2] = "storybook_preview" /\ p[3] = "/" /\ p[4] # "/"

\* History: the entry registered under the name a preview path asks for, as
\* a sequence of at most one handler.
RegisteredEntry(handlers, p) ==
    IF IsPreviewPath(p) /\ p[4] \in DOMAIN handlers THEN <<handlers[p[4]]>> ELSE <<>>

\* One request served by Storybook.ServeHTTP.
Request(r) ==
    /\ req' = [path |-> r.path, query |-> r.query, entry |-> RegisteredEntry(Handlers, r.path)]
    /\ resp' = ServeHTTP(Handlers, RoutePrefix, r)
    /\ UNCHANGED <<smVars, objVars, muVars, regVars, buildVars>>

\* Registration alone: any sequence of AddComponent calls.
NextRegistry ==
    \E name \in Names, f \in Constructors, args \in ArgLists :
        regCount < MaxCalls /\ AddComponent(name, f, args)

NextPreview ==
    \/ \E name \in Names, f \in Constructors, args \in ArgLists :
          regCount < MaxRegs /\ AddComponent(name, f, args)
    \/ \E p \in Paths, q \in Queries : Request([path |-> p, query |-> q])

\* -------------------------------------------------------- build pipeline
\* A directory on disk: absent, or a mapping from file name to content.
NoDir == [exists |-> FALSE, files |-> <<>>]
Dir(files) == [exists |-> TRUE, files |-> files]

\* What "npx sb init -t server" leaves in stories/: the tool's example stories.
TemplateStories == Dir([f \in {<<"stories", "Introduction", ".stories.mdx">>} |-> [template |-> TRUE]])

\* dirhash.HashDir: a not-exist error and the empty hash for an absent
\* directory, else the h1 hash of the (name, content) list sorted by name.
HashDir(dir) ==
    IF ~dir.exists THEN [err |-> "notexist", hash |-> [h |-> "", of |-> <<>>]]
    ELSE [err |-> Nil, hash |-> [h |-> "h1:", of |-> dir.files]]

\* json.NewEncoder(f).Encode(c): the Conf by its json tags; Story.Args has no
\* tag and so keeps its field name.
EncodeConf(c) ==
    [title |-> c.Title,
     parameters |-> [server |-> c.Parameters.Server],
     args |-> MarshalJSON(c.Args),
     argTypes |-> MarshalJSON(c.ArgTypes),
     stories |-> [i \in 1..Len(c.Stories) |->
                     [name |-> c.Stories[i].Name, Args |-> MarshalJSON(c.Stories[i].Args)]]]

\* A plausible slip: one file name for every component.
StoryFileNameFixed(title) == <<"stories", "component", ".stories.json">>

\* fmt.Sprintf("stories/%s.stories.json", c.Title)
StoryFileName(title) == <<"stories", title, ".stories.json">>

\* The loop of configureStorybook over sh.Config in the order `order`, the
\* first n components only: each file created (truncated) and written.
RECURSIVE WriteStories(_, _, _, _)
WriteStories(files, config, order, n) ==
    IF n = 0 THEN files
    ELSE LET c == config[order[n]]
         IN MapSet(WriteStories(files, config, order, n - 1),
                   StoryFileName(c.Title), EncodeConf(c))

\* The orders in which range may visit a map's keys.
Perms(S) ==
    {s \in [1..Cardinality(S) -> S] : \A i, j \in 1..Cardinality(S) : s[i] = s[j] => i = j}

ConfigureFaults == {"none", "hash", "removeall", "mkdir", "create", "writefile"}
CmdExits == {"ok", "fail"}

\* Storybook.configureStorybook on the disk `disk` with the registry `config`
\* visited in `order`, under the environment fault `fault` (for "create", at
\* the k-th file): the disk left behind, the two results and the hashes.
configureStorybook(disk, config, order, fault, k) ==
    LET before == HashDir(disk.stories)
        n == Len(order)
        written == Dir(WriteStories(<<>>, config, order, n))
        after == HashDir(written)
        changed == before.hash # after.hash
        failed(d, e) == [disk |-> d, configHasChanged |-> FALSE, err |-> e,
                         completed |-> FALSE, before |-> before.hash, after |-> HashDir(NoDir).hash]
    IN IF fault = "hash" THEN failed(disk, "hashdir")
       ELSE IF fault = "removeall" THEN failed(disk, "removeall")
       ELSE IF fault = "mkdir" \/ ~disk.path
       THEN failed([disk EXCEPT !.stories = NoDir], "mkdir stories")
       ELSE IF fault = "create" /\ n > 0
       THEN failed([disk EXCEPT !.stories = Dir(WriteStories(<<>>, config, order, k - 1))],
                   "failed to create config file")
       ELSE IF fault = "writefile" \/ ~disk.scaffold
       THEN [disk |-> [disk EXCEPT !.stories = written],
             configHasChanged |-> changed, err |-> "writefile preview.js",
             completed |-> TRUE, before |-> before.hash, after |-> after.hash]
       ELSE [disk |-> [disk EXCEPT !.stories = written, !.previewJS = TRUE],
             configHasChanged |-> changed, err |-> Nil,
             completed |-> TRUE, before |-> before.hash, after |-> after.hash]

NewRun ==
    [statFailed |-> FALSE,
     installExit |-> "none", installRet |-> "none", cancelAtInstallRet |-> FALSE,
     configureStarted |-> FALSE, confCompleted |-> FALSE, confRet |-> "none",
     before |-> HashDir(NoDir).hash, after |-> HashDir(NoDir).hash,
     prevCompleted |-> FALSE, prevAfter |-> HashDir(NoDir).hash,
     cancelAtConfRet |-> FALSE, cancelAtCheck1 |-> FALSE, cancelAtCheck2 |-> FALSE,
     buildEntered |-> FALSE, buildLaunched |-> FALSE, buildExit |-> "none",
     buildRet |-> "none", cancelDuringCmd |-> FALSE]

NoServe == [pc |-> "none", runsAtEntry |-> 0, listener |-> "none", closed |-> FALSE,
            err |-> Nil, ret |-> "none"]

InitBuild ==
    /\ fs = [path |-> FALSE, scaffold |-> FALSE, stories |-> NoDir,
             previewJS |-> FALSE, bundle |-> [built |-> FALSE, from |-> <<>>]]
    /\ cancelled = FALSE
    /\ pc = "idle"
    /\ err = Nil
    /\ configHasChanged = FALSE
    /\ run = NewRun
    /\ runs = 0
    /\ confHist = [completed |-> FALSE, after |-> HashDir(NoDir).hash, regSince |-> FALSE]
    /\ ls = NoServe

\* The caller's context is cancelled: ctx.Err() is non-nil from now on.
Cancel ==
    /\ ~cancelled
    /\ pc \notin {"idle", "done"} \/ ls.pc \in {"building", "waiting"}
    /\ cancelled' = TRUE
    /\ run' = [run EXCEPT !.cancelDuringCmd = @ \/ pc \in {"install_cmd", "build_cmd"}]
    /\ UNCHANGED <<smVars, objVars, muVars, regVars, req, resp, fs, pc, err, configHasChanged, runs, confHist, ls>>

\* Build is entered with a context that may already be cancelled.
EnterBuild(c) ==
    /\ pc \in {"idle", "done"}
    /\ runs < MaxRuns
    /\ runs' = runs + 1
    /\ cancelled' = c
    /\ pc' = "install"
    /\ err' = Nil
    /\ configHasChanged' = FALSE
    /\ run' = NewRun
    /\ UNCHANGED <<smVars, objVars, muVars, regVars, req, resp, fs, confHist>>

\* A direct call of Storybook.Build.
BeginBuild(c) ==
    /\ ls.pc = "none"
    /\ EnterBuild(c)
    /\ UNCHANGED ls

\* installStorybook up to the launch of "npx sb init": Stat, then Mkdir when
\* the directory does not exist, then LookPath. statOk = FALSE is a Stat error
\* on an existing directory (other than not-exist): Mkdir is skipped and the
\* command is still looked up and run.
InstallStat(statOk, mkdirOk, npxFound) ==
    /\ pc = "install"
    /\ IF fs.path /\ statOk
       THEN /\ err' = Nil
            /\ pc' = "check1"
            /\ run' = [run EXCEPT !.installRet = Nil, !.cancelAtInstallRet = cancelled]
            /\ fs' = fs
       ELSE IF ~fs.path /\ ~mkdirOk
       THEN /\ err' = "error creating @storybook/server directory"
            /\ pc' = "check1"
            /\ run' = [run EXCEPT !.installRet = err', !.cancelAtInstallRet = cancelled]
            /\ fs' = fs
       ELSE IF ~npxFound
       THEN /\ err' = "cannot find npx on the path"
            /\ pc' = "check1"
            /\ run' = [run EXCEPT !.installRet = err', !.cancelAtInstallRet = cancelled]
            /\ fs' = [fs EXCEPT !.path = TRUE]
       ELSE /\ err' = err
            /\ pc' = "install_cmd"
            /\ run' = [run EXCEPT !.statFailed = fs.path]
            /\ fs' = [fs EXCEPT !.path = TRUE]
    /\ UNCHANGED <<smVars, objVars, muVars, regVars, req, resp, cancelled, configHasChanged, runs, confHist, ls>>

\* cmd.Run() of "npx sb init -t server" returns: the command was started
\* without a context and ends with its own exit status. In a directory that
\* Stat could not read, the command cannot be started and fails.
InstallCmdDone(exit) ==
    /\ pc = "install_cmd"
    /\ run.statFailed => exit = "fail"
    /\ err' = IF exit = "ok" THEN Nil ELSE "sb init failed"
    /\ fs' = IF exit = "ok" THEN [fs EXCEPT !.scaffold = TRUE, !.stories = TemplateStories]
             ELSE fs
    /\ pc' = "check1"
    /\ run' = [run EXCEPT !.installExit = exit, !.installRet = err',
                          !.cancelAtInstallRet = cancelled]
    /\ UNCHANGED <<smVars, objVars, muVars, regVars, req, resp, cancelled, configHasChanged, runs, confHist, ls>>

\* A plausible slip: the context is not consulted after the install stage.
Check1NoCtx ==
    /\ pc = "check1"
    /\ pc' = IF err # Nil THEN "done" ELSE "configure"
    /\ run' = [run EXCEPT !.cancelAtCheck1 = cancelled]
    /\ UNCHANGED <<smVars, objVars, muVars, regVars, req, resp, fs, cancelled, err, configHasChanged, runs, confHist, ls>>

\* Build after installStorybook: return on an error or a cancelled context.
Check1 ==
    /\ pc = "check1"
    /\ pc' = IF err # Nil \/ cancelled THEN "done" ELSE "configure"
    /\ run' = [run EXCEPT !.cancelAtCheck1 = cancelled]
    /\ UNCHANGED <<smVars, objVars, muVars, regVars, req, resp, fs, cancelled, err, configHasChanged, runs, confHist, ls>>

\* The configure stage: configureStorybook as one step.
Configure(order, fault, k) ==
    /\ pc = "configure"
    /\ LET r == configureStorybook(fs, Config, order, fault, k)
       IN /\ fs' = r.disk
          /\ configHasChanged' = r.configHasChanged
          /\ err' = r.err
          /\ run' = [run EXCEPT !.configureStarted = TRUE,
                                !.confCompleted = r.completed,
                                !.confRet = r.err,
                                !.before = r.before, !.after = r.after,
                                !.prevCompleted = confHist.completed /\ ~confHist.regSince,
                                !.prevAfter = confHist.after,
                                !.cancelAtConfRet = cancelled]
          /\ confHist' = [completed |-> r.completed, after |-> r.after, regSince |-> FALSE]
    /\ pc' = "check2"
    /\ UNCHANGED <<smVars, objVars, muVars, regVars, req, resp, cancelled, runs, ls>>

\* A plausible slip: the bundle rebuilt whether the configuration changed or
\* not.
Check2AlwaysBuild ==
    /\ pc = "check2"
    /\ pc' = IF err # Nil \/ cancelled THEN "done" ELSE "build"
    /\ run' = [run EXCEPT !.cancelAtCheck2 = cancelled]
    /\ UNCHANGED <<smVars, objVars, muVars, regVars, req, resp, fs, cancelled, err, configHasChanged, runs, confHist, ls>>

\* Build after configureStorybook: return on an error or a cancelled
\* context, else build if the configuration changed and skip if not.
Check2 ==
    /\ pc = "check2"
    /\ pc' = IF err # Nil \/ cancelled THEN "done"
             ELSE IF configHasChanged THEN "build" ELSE "check3"
    /\ run' = [run EXCEPT !.cancelAtCheck2 = cancelled]
    /\ UNCHANGED <<smVars, objVars, muVars, regVars, req, resp, fs, cancelled, err, configHasChanged, runs, confHist, ls>>

\* buildStorybook up to the launch of "npm run build-storybook". Its result
\* is dropped by Build (line 110), so err stays as it is.
BuildLook(npmFound) ==
    /\ pc = "build"
    /\ IF npmFound
       THEN /\ pc' = "build_cmd"
            /\ run' = [run EXCEPT !.buildEntered = TRUE, !.buildLaunched = TRUE]
       ELSE /\ pc' = "check3"
            /\ run' = [run EXCEPT !.buildEntered = TRUE,
                                  !.buildRet = "cannot find npm on the path"]
    /\ UNCHANGED <<smVars, objVars, muVars, regVars, req, resp, fs, cancelled, err, configHasChanged, runs, confHist, ls>>

\* cmd.Run() of "npm run build-storybook" returns.
BuildCmdDone(exit) ==
    /\ pc = "build_cmd"
    /\ fs' = IF exit = "ok"
             THEN [fs EXCEPT !.bundle = [built |-> TRUE, from |-> fs.stories.files]]
             ELSE fs
    /\ run' = [run EXCEPT !.buildExit = exit,
                          !.buildRet = IF exit = "ok" THEN Nil ELSE "build-storybook failed"]
    /\ pc' = "check3"
    /\ UNCHANGED <<smVars, objVars, muVars, regVars, req, resp, cancelled, err, configHasChanged, runs, confHist, ls>>

\* Build's last lines: return err, cancelled or not.
Check3 ==
    /\ pc = "check3"
    /\ pc' = "done"
    /\ UNCHANGED <<smVars, objVars, muVars, regVars, req, resp, fs, cancelled, err, configHasChanged, run, runs, confHist, ls>>

\* ListenAndServeWithContext is entered: it calls Build first.
StartServe(c) ==
    /\ ls.pc = "none"
    /\ EnterBuild(c)
    /\ ls' = [ls EXCEPT !.pc = "building", !.runsAtEntry = runs]

\* A plausible slip: the goroutine started whatever Build returned.
AfterBuildNoCheck ==
    /\ ls.pc = "building"
    /\ pc = "done"
    /\ ls' = [ls EXCEPT !.pc = "waiting", !.listener = "spawned", !.err = err]
    /\ UNCHANGED <<smVars, objVars, muVars, regVars, req, resp, fs, cancelled, pc, err, configHasChanged, run, runs, confHist>>

\* Build has returned: its error is returned, or the serving goroutine is
\* started and the driver waits on ctx.Done().
AfterBuild ==
    /\ ls.pc = "building"
    /\ pc = "done"
    /\ ls' = IF err # Nil
             THEN [ls EXCEPT !.pc = "returned", !.err = err, !.ret = err]
             ELSE [ls EXCEPT !.pc = "waiting", !.listener = "spawned", !.err = Nil]
    /\ UNCHANGED <<smVars, objVars, muVars, regVars, req, resp, fs, cancelled, pc, err, configHasChanged, run, runs, confHist>>

\* The goroutine calls sh.Server.ListenAndServe(): it returns at once when the
\* server is closed already or the address cannot be bound, else it serves.
GoListen(bound) ==
    /\ ls.listener = "spawned"
    /\ ls' = IF ls.closed
             THEN [ls EXCEPT !.listener = "stopped", !.err = "http: Server closed"]
             ELSE IF ~bound
             THEN [ls EXCEPT !.listener = "stopped", !.err = "listen: address already in use"]
             ELSE [ls EXCEPT !.listener = "listening"]
    /\ UNCHANGED <<smVars, objVars, muVars, regVars, req, resp, fs, cancelled, pc, err, configHasChanged, run, runs, confHist>>

\* ListenAndServe returns in the goroutine after Close, and err is assigned.
GoServeReturn ==
    /\ ls.listener = "listening"
    /\ ls.closed
    /\ ls' = [ls EXCEPT !.listener = "stopped", !.err = "http: Server closed"]
    /\ UNCHANGED <<smVars, objVars, muVars, regVars, req, resp, fs, cancelled, pc, err, configHasChanged, run, runs, confHist>>

\* <-ctx.Done() returns and the driver closes the server.
DriverClose ==
    /\ ls.pc = "waiting"
    /\ cancelled
    /\ ls' = [ls EXCEPT !.pc = "closed", !.closed = TRUE]
    /\ UNCHANGED <<smVars, objVars, muVars, regVars, req, resp, fs, cancelled, pc, err, configHasChanged, run, runs, confHist>>

\* What the driver's unsynchronised read of err can yield: the goroutine's
\* write races with it, so once the goroutine has assigned err the read sees
\* the value from before the write, the value written, or a torn interface
\* value (the two words of an interface are stored separately).
Torn == "torn interface value"
RacyRead(l) == IF l.listener = "stopped" THEN {Nil, l.err, Torn} ELSE {l.err}

\* return err
DriverReturn(seen) ==
    /\ ls.pc = "closed"
    /\ seen \in RacyRead(ls)
    /\ ls' = [ls EXCEPT !.pc = "returned", !.ret = seen]
    /\ UNCHANGED <<smVars, objVars, muVars, regVars, req, resp, fs, cancelled, pc, err, configHasChanged, run, runs, confHist>>

\* The registrations the pipeline is run against.
BuildRegs ==
    { <<"button", <<TextArg("text", "World")>> >>,
      <<"button", <<TextArg("text", "World"), BooleanArg("on", FALSE)>> >>,
      <<"card", <<TextArg("text", "World")>> >> }

ButtonConstructor ==
    [id |-> "button", isFunc |-> TRUE, params |-> <<"string">>, results |-> <<"component">>]

NextBuild ==
    \/ \E rg \in BuildRegs :
          regCount < MaxRegs /\ AddComponent(rg[1], ButtonConstructor, rg[2])
    \/ \E c \in BOOLEAN : BeginBuild(c)
    \/ \E c \in BOOLEAN : StartServe(c)
    \/ Cancel
    \/ \E statOk, mkdirOk, npxFound \in BOOLEAN : InstallStat(statOk, mkdirOk, npxFound)
    \/ \E exit \in CmdExits : InstallCmdDone(exit)
    \/ Check1
    \/ \E order \in Perms(DOMAIN Config), fault \in ConfigureFaults,
          k \in 1..(IF Cardinality(DOMAIN Config) = 0 THEN 1 ELSE Cardinality(DOMAIN Config)) :
            /\ fault # "create" => k = 1
            /\ Configure(order, fault, k)
    \/ Check2
    \/ \E npmFound \in BOOLEAN : BuildLook(npmFound)
    \/ \E exit \in CmdExits : BuildCmdDone(exit)
    \/ Check3
    \/ AfterBuild
    \/ \E bound \in BOOLEAN : GoListen(bound)
    \/ GoServeReturn
    \/ DriverClose
    \/ \E seen \in RacyRead(ls) : DriverReturn(seen)

\* Routing alone: paths around the preview prefix, a path that goes on after
\* "storybook_preview" within the segment included.
RoutePaths ==
    Paths \cup { <<"/", "storybook_preview", "s.js">>,
                 <<"/", "storybook_preview", "/">>,
                 <<"/", "prod", "/", "storybook_preview", "/", "button", "/", "extra">>,
                 <<"/", "prod", "/", "index.html">> }

NextRoute ==
    \/ \E rg \in BuildRegs :
          regCount < MaxRegs /\ AddComponent(rg[1], ButtonConstructor, rg[2])
    \/ \E p \in RoutePaths, q \in Queries : Request([path |-> p, query |-> q])

\* ----------------------------------------------------- integer arguments
RawInts ==
    { <<"4", "2">>,
      <<"-", "7">>,
      <<"+", "5">>,
      <<"0", "0", "7">>,
      <<"-", "0">>,
      <<"a", "b", "c">>,
      <<"4", "x">>,
      <<"-">>,
      <<"9", "2", "2", "3", "3", "7", "2", "0", "3", "6", "8", "5", "4", "7", "7", "5", "8", "0", "7">>,
      <<"9", "2", "2", "3", "3", "7", "2", "0", "3", "6", "8", "5", "4", "7", "7", "5", "8", "0", "8">>,
      <<"-", "9", "2", "2", "3", "3", "7", "2", "0", "3", "6", "8", "5", "4", "7", "7", "5", "8", "0", "8">>,
      <<"-", "9", "2", "2", "3", "3", "7", "2", "0", "3", "6", "8", "5", "4", "7", "7", "5", "8", "0", "9">>,
      <<"9", "9", "9", "9", "9", "9", "9", "9", "9", "9", "9", "9", "9", "9", "9", "9", "9", "9", "9", "9", "x">> }

IntQueries == {[n |-> raw] : raw \in RawInts} \cup {<<>>}
IntDefaults == {IntZero, [neg |-> FALSE, mag |-> <<5>>]}
IntArgConfs == {[min |-> <<>>, max |-> <<>>, step |-> <<>>], [min |-> <<0>>, max |-> <<9>>, step |-> <<>>]}
IntConstructor ==
    [id |-> "counter", isFunc |-> TRUE, params |-> <<"int">>, results |-> <<"component">>]
IntPaths == {<<"/", "storybook_preview", "/", n>> : n \in Names}

\* Components with one integer argument, and requests to them.
NextInt ==
    \/ \E name \in Names, value \in IntDefaults, conf \in IntArgConfs :
          regCount < MaxRegs /\ AddComponent(name, IntConstructor, <<IntArg("n", value, conf)>>)
    \/ \E p \in IntPaths, q \in IntQueries : Request([path |-> p, query |-> q])

\* ------------------------------------------------------ object arguments
\* The struct the object argument decodes into: two int fields, json "a", "b".
Fields == <<"a", "b">>
DefaultObject == [a |-> 1, b |-> 1]
ZeroObject == [a |-> 0, b |-> 0]
GoObject(o) == <<"object", o>>

\* The pointers a caller may hand to ObjectArg as valuePtr: to a copy of the
\* default value, or to a fresh zero value.
Ptrs == {"pDefault", "pZero"}

\* ObjectArg: the descriptor; its Get closure keeps valuePtr.
ObjectArg(name, value, valuePtr) ==
    [Name |-> name, Value |-> GoObject(value), Control |-> "object", Get |-> "object",
     Ptr |-> valuePtr]

\* []byte(q.Get(name)) as JSON tokens; no tokens when the key is absent.
Punct == {"{", "}", ":", ","}
NumberTokens == {"2", "3"}
NumberOf(tok) == IF tok = "2" THEN 2 ELSE 3

\* The scanner of encoding/json (checkValid) on a flat object, and the
\* members it holds in order: '{' [ key ':' value { ',' key ':' value } ] '}'.
ParseObject(raw) ==
    LET n == Len(raw)
        RECURSIVE Members(_, _)
        Members(i, acc) ==
            IF i + 3 > n THEN [ok |-> FALSE, fields |-> <<>>]
            ELSE IF raw[i] \in Punct \/ raw[i + 1] # ":" \/ raw[i + 2] \in Punct
            THEN [ok |-> FALSE, fields |-> <<>>]
            ELSE LET acc1 == Append(acc, [key |-> raw[i], tok |-> raw[i + 2]])
                 IN IF raw[i + 3] = "}" /\ i + 3 = n THEN [ok |-> TRUE, fields |-> acc1]
                    ELSE IF raw[i + 3] = "," THEN Members(i + 4, acc1)
                    ELSE [ok |-> FALSE, fields |-> <<>>]
    IN IF n < 2 \/ raw[1] # "{" THEN [ok |-> FALSE, fields |-> <<>>]
       ELSE IF n = 2 THEN [ok |-> raw[2] = "}", fields |-> <<>>]
       ELSE Members(2, <<>>)

\* A member json.Unmarshal cannot store: a known field given a non-number.
TypeError(m) == m.key \in {Fields[1], Fields[2]} /\ m.tok \notin NumberTokens

\* json.Unmarshal's error for raw: a syntax error, else the type error of a
\* member, else nil.
UnmarshalError(raw) ==
    LET po == ParseObject(raw)
    IN IF ~po.ok THEN "syntax error"
       ELSE IF \E i \in 1..Len(po.fields) : TypeError(po.fields[i])
       THEN "UnmarshalTypeError"
       ELSE Nil

\* The store of one member into the struct: a number into its field; an
\* unknown key and a value of the wrong type are skipped.
StoreMember(o, m) ==
    IF m.key \in {Fields[1], Fields[2]} /\ m.tok \in NumberTokens
    THEN [o EXCEPT ![m.key] = NumberOf(m.tok)]
    ELSE o

\* The raw values requests carry for the object argument.
RawObjects ==
    { <<>>,
      <<"{", "a", ":", "2", ",", "b", ":", "2", "}">>,
      <<"{", "a", ":", "3", ",", "b", ":", "3", "}">>,
      <<"{", "a", ":", "3", ",", "b", ":", "\"x\"", "}">>,
      <<"{", "a", ":", "3">> }

ObjectConstructor ==
    [id |-> "objcard", isFunc |-> TRUE, params |-> <<"object">>, results |-> <<"component">>]
ObjectName == "card"
ObjectPath == <<"/", "storybook_preview", "/", ObjectName>>

Goroutines == {1, 2}
NoRequest ==
    [pc |-> "idle", raw |-> <<>>, todo |-> <<>>, decodeErr |-> Nil, val |-> ZeroObject,
     overlapped |-> FALSE, values |-> <<>>, status |-> 0]

InitObject ==
    /\ cell = [p \in Ptrs |-> IF p = "pDefault" THEN DefaultObject ELSE ZeroObject]
    /\ inflight = [g \in Goroutines |-> NoRequest]
    /\ served = 0

Busy(g) == inflight[g].pc \notin {"idle", "done"}

\* The handler ServeHTTP and previewHandler route ObjectPath to.
ObjectHandler == Handlers[Extract(ObjectPath).name]
ObjectPtr == ObjectHandler.args[1].Ptr

\* net/http accepts a request for the object component and runs the handler
\* on a goroutine of its own; ServeHTTP and previewHandler route it.
Arrive(g, raw) ==
    /\ served < MaxRequests
    /\ ~Busy(g)
    /\ HasPrefix(ObjectPath, PreviewPrefix(RoutePrefix))
    /\ Extract(ObjectPath).ok /\ Extract(ObjectPath).name \in DOMAIN Handlers
    /\ served' = served + 1
    /\ inflight' = [h \in Goroutines |->
                      IF h = g
                      THEN [NoRequest EXCEPT !.pc = "unmarshal", !.raw = raw,
                                             !.overlapped = \E o \in Goroutines \ {g} : Busy(o)]
                      ELSE IF Busy(h) THEN [inflight[h] EXCEPT !.overlapped = TRUE]
                      ELSE inflight[h]]
    /\ UNCHANGED <<smVars, muVars, regVars, req, resp, buildVars, cell>>

\* json.Unmarshal, first part: the input is scanned; a syntax error returns
\* with the target untouched.
UnmarshalCheck(g) ==
    /\ inflight[g].pc = "unmarshal"
    /\ LET po == ParseObject(inflight[g].raw)
       IN inflight' = [inflight EXCEPT
                         ![g].decodeErr = UnmarshalError(inflight[g].raw),
                         ![g].todo = po.fields,
                         ![g].pc = IF po.ok /\ po.fields # <<>> THEN "write" ELSE "readA"]
    /\ UNCHANGED <<smVars, muVars, regVars, req, resp, buildVars, cell, served>>

\* json.Unmarshal, second part: the members are stored one by one into
\* *valuePtr, with no lock held.
UnmarshalField(g) ==
    /\ inflight[g].pc = "write"
    /\ cell' = [cell EXCEPT ![ObjectPtr] = StoreMember(@, Head(inflight[g].todo))]
    /\ inflight' = [inflight EXCEPT
                      ![g].todo = Tail(@),
                      ![g].pc = IF Len(inflight[g].todo) = 1 THEN "readA" ELSE "write"]
    /\ UNCHANGED <<smVars, muVars, regVars, req, resp, buildVars, served>>

\* reflect.Indirect(reflect.ValueOf(valuePtr)).Interface(): the struct is
\* copied out of *valuePtr field by field, with no lock held.
ReadField(g) ==
    /\ inflight[g].pc \in {"readA", "readB"}
    /\ LET f == IF inflight[g].pc = "readA" THEN Fields[1] ELSE Fields[2]
       IN inflight' = [inflight EXCEPT
                         ![g].val = [@ EXCEPT ![f] = cell[ObjectPtr][f]],
                         ![g].pc = IF inflight[g].pc = "readA" THEN "readB" ELSE "call"]
    /\ UNCHANGED <<smVars, muVars, regVars, req, resp, buildVars, cell, served>>

\* The closure goes on: executeTemplate with the value extracted, and the
\* answer.
Dispatch(g) ==
    /\ inflight[g].pc = "call"
    /\ LET argv == <<GoObject(inflight[g].val)>>
           r == HandlerRespond(ObjectHandler, argv)
       IN inflight' = [inflight EXCEPT ![g].values = r.call.values,
                                       ![g].status = r.status,
                                       ![g].pc = "done"]
    /\ UNCHANGED <<smVars, muVars, regVars, req, resp, buildVars, cell, served>>

NextObject ==
    \/ \E ptr \in Ptrs :
          /\ regCount = 0
          /\ AddComponent(ObjectName, ObjectConstructor,
                          <<ObjectArg("obj", DefaultObject, ptr)>>)
    \/ \E g \in Goroutines, raw \in RawObjects : Arrive(g, raw)
    \/ \E g \in Goroutines : UnmarshalCheck(g)
    \/ \E g \in Goroutines : UnmarshalField(g)
    \/ \E g \in Goroutines : ReadField(g)
    \/ \E g \in Goroutines : Dispatch(g)

\* ------------------------------------------- SortedMap under concurrency
Threads == {1, 2}
Idle == [pc |-> "idle", kind |-> "none", key |-> "", value |-> 0,
         ks |-> <<>>, i |-> 0, b |-> <<>>]

InitLocked ==
    /\ mu = 0
    /\ th = [t \in Threads |-> Idle]
    /\ ops = 0

\* A goroutine calls sm.Add(key, value) or sm.MarshalJSON().
CallAdd(t, key, value) ==
    /\ th[t].pc = "idle"
    /\ ops < MaxOps
    /\ ops' = ops + 1
    /\ th' = [th EXCEPT ![t] = [Idle EXCEPT !.pc = "lock", !.kind = "add",
                                            !.key = key, !.value = value]]
    /\ UNCHANGED <<smVars, mu, regVars, req, resp, buildVars, objVars>>

CallMarshal(t) ==
    /\ th[t].pc = "idle"
    /\ ops < MaxOps
    /\ ops' = ops + 1
    /\ th' = [th EXCEPT ![t] = [Idle EXCEPT !.pc = "lock", !.kind = "marshal"]]
    /\ UNCHANGED <<smVars, mu, regVars, req, resp, buildVars, objVars>>

\* A plausible slip: the lock taken without waiting for its holder.
LockNoWait(t) ==
    /\ th[t].pc = "lock"
    /\ mu' = t
    /\ th' = [th EXCEPT ![t].pc = IF th[t].kind = "add" THEN "read" ELSE "begin"]
    /\ UNCHANGED <<smVars, ops, regVars, req, resp, buildVars, objVars>>

\* sm.m.Lock(): blocks until the mutex is free.
Lock(t) ==
    /\ th[t].pc = "lock"
    /\ mu = 0
    /\ mu' = t
    /\ th' = [th EXCEPT ![t].pc = IF th[t].kind = "add" THEN "read" ELSE "begin"]
    /\ UNCHANGED <<smVars, ops, regVars, req, resp, buildVars, objVars>>

\* sm.keys = append(sm.keys, key): the slice is read, then the longer slice
\* is stored.
AddRead(t) ==
    /\ th[t].pc = "read"
    /\ th' = [th EXCEPT ![t].ks = sm.keys, ![t].pc = "append"]
    /\ UNCHANGED <<smVars, mu, ops, regVars, req, resp, buildVars, objVars>>

AddAppend(t) ==
    /\ th[t].pc = "append"
    /\ sm' = [sm EXCEPT !.keys = Append(th[t].ks, th[t].key)]
    /\ th' = [th EXCEPT ![t].ks = <<>>, ![t].pc = "store"]
    /\ UNCHANGED <<addLog, out, outAt, mu, ops, regVars, req, resp, buildVars, objVars>>

\* sm.internal[key] = value
AddStore(t) ==
    /\ th[t].pc = "store"
    /\ sm' = [sm EXCEPT !.internal = MapSet(@, th[t].key, th[t].value)]
    /\ addLog' = Append(addLog, <<th[t].key, th[t].value>>)
    /\ th' = [th EXCEPT ![t].pc = "unlock"]
    /\ UNCHANGED <<out, outAt, mu, ops, regVars, req, resp, buildVars, objVars>>

\* MarshalJSON up to the loop: '{' is written and range evaluates sm.keys.
MarshalBegin(t) ==
    /\ th[t].pc = "begin"
    /\ th' = [th EXCEPT ![t].b = Rune("{"), ![t].ks = sm.keys, ![t].i = 1, ![t].pc = "loop"]
    /\ UNCHANGED <<smVars, mu, ops, regVars, req, resp, buildVars, objVars>>

\* What enc.Encode(sm.internal[k]) writes: a key that is not in the map reads
\* as nil and is written as null.
EncodeLookup(m, k) ==
    IF k \in DOMAIN m THEN EncodeValue(m[k]) ELSE << <<"null", 0>>, <<"nl", "">> >>

\* One iteration of the loop, or '}' after the last one.
MarshalStep(t) ==
    /\ th[t].pc = "loop"
    /\ LET i == th[t].i
           ks == th[t].ks
       IN IF i > Len(ks)
          THEN th' = [th EXCEPT ![t].b = @ \o Rune("}"), ![t].pc = "unlock"]
          ELSE LET b1 == th[t].b \o EncodeString(ks[i]) \o Rune(":")
                            \o EncodeLookup(sm.internal, ks[i])
                   b2 == IF i - 1 < Len(ks) - 1 THEN b1 \o Rune(",") ELSE b1
               IN th' = [th EXCEPT ![t].b = b2, ![t].i = i + 1]
    /\ UNCHANGED <<smVars, mu, ops, regVars, req, resp, buildVars, objVars>>

\* The deferred sm.m.Unlock() and the return; MarshalJSON returns b.Bytes().
Unlock(t) ==
    /\ th[t].pc = "unlock"
    /\ mu' = 0
    /\ IF th[t].kind = "marshal"
       THEN out' = th[t].b /\ outAt' = Len(addLog)
       ELSE UNCHANGED <<out, outAt>>
    /\ th' = [th EXCEPT ![t] = Idle]
    /\ UNCHANGED <<sm, addLog, ops, regVars, req, resp, buildVars, objVars>>

NextLocked ==
    \/ \E t \in Threads, key \in Keys, value \in Values : CallAdd(t, key, value)
    \/ \E t \in Threads : CallMarshal(t)
    \/ \E t \in Threads : Lock(t)
    \/ \E t \in Threads : AddRead(t)
    \/ \E t \in Threads : AddAppend(t)
    \/ \E t \in Threads : AddStore(t)
    \/ \E t \in Threads : MarshalBegin(t)
    \/ \E t \in Threads : MarshalStep(t)
    \/ \E t \in Threads : Unlock(t)

Init == InitSM /\ InitRegistry /\ InitPreview /\ InitBuild /\ InitObject /\ InitLocked

SpecSortedMap == Init /\ [][NextSM]_vars
SpecRegistry == Init /\ [][NextRegistry]_vars
SpecPreview == Init /\ [][NextPreview]_vars
SpecBuild == Init /\ [][NextBuild]_vars
SpecObject == Init /\ [][NextObject]_vars
SpecInt == Init /\ [][NextInt]_vars
SpecRoute == Init /\ [][NextRoute]_vars
SpecLocked == Init /\ [][NextLocked]_vars

\* ---------------------------------------------------------------- claims
\* The keys a JSON object literal lists, read off the emitted tokens: the
\* string that follows '{' or ','.
EmittedKeys(b) ==
    LET idx == {i \in 2..Len(b) : b[i][1] = "string" /\ b[i-1] \in {<<"rune", "{">>, <<"rune", ",">>}}
        RECURSIVE Pick(_)
        Pick(i) == IF i > Len(b) THEN <<>>
                   ELSE IF i \in idx THEN <<b[i][2]>> \o Pick(i + 1)
                   ELSE Pick(i + 1)
    IN Pick(1)

AddedKeys(n) == [i \in 1..n |-> addLog[i][1]]

\* C1: for any sequence of Add calls, repeated keys included, MarshalJSON
\* emits the keys in exactly the order of the Add calls, one emitted key per
\* Add call.
C1_MarshalInsertionOrder ==
    out # NoOutput => EmittedKeys(out) = AddedKeys(outAt)

\* C1 witness: an output for three Adds of which the first and third repeat
\* a key.
C1_Witness ==
    /\ out # NoOutput
    /\ outAt = 3
    /\ addLog[1][1] = addLog[3][1]
    /\ addLog[2][1] # addLog[1][1]
    /\ Len(EmittedKeys(out)) = 3

\* The original invariant of C2: keys has no duplicates, its order is the
\* insertion order, and keys and the values mapping hold the same keys.
Range(s) == {s[i] : i \in 1..Len(s)}
NoDuplicates(s) == \A i, j \in 1..Len(s) : s[i] = s[j] => i = j

C2_Original_NoDuplicateKeys ==
    /\ NoDuplicates(sm.keys)
    /\ sm.keys = AddedKeys(Len(addLog))
    /\ Range(sm.keys) = DOMAIN sm.internal

\* C2 (amended): after any sequence of Add calls, keys holds one entry per Add
\* call in insertion order (a key added twice appears twice), the set of keys
\* in keys equals the set of keys of the values mapping.
C2_KeysMirrorAdds ==
    /\ sm.keys = AddedKeys(Len(addLog))
    /\ Range(sm.keys) = DOMAIN sm.internal

\* C2 witness: a key was added twice, with another key in between.
C2_Witness ==
    /\ Len(sm.keys) = 3
    /\ sm.keys[1] = sm.keys[3]
    /\ sm.keys[1] # sm.keys[2]
    /\ Cardinality(DOMAIN sm.internal) = 2

\* The call of executeTemplate the last request made, if any.
LastCall == resp.call
ArityMismatch ==
    /\ LastCall.made
    /\ LastCall.fn.isFunc
    /\ Len(LastCall.values) # Len(LastCall.fn.params)
CountMatches ==
    /\ LastCall.made
    /\ LastCall.fn.isFunc
    /\ Len(LastCall.values) = Len(LastCall.fn.params)
InvalidSignatureFormats ==
    { "templ-storybook: function %s must return a templ.Component",
      "templ-storybook: result of function %s is not a templ.Component" }
OneRenderableResult(fn) == Len(fn.results) = 1 /\ fn.results[1] = "component"

\* C3: called with a number of values different from the constructor's
\* arity, executeTemplate does not invoke the constructor and fails with an
\* arity-mismatch error carrying the component name, the expected count and
\* the actual count.
C3_ArityErrorCarriesName ==
    ArityMismatch =>
        /\ ~LastCall.res.called
        /\ LastCall.res.kind = "error"
        /\ LastCall.res.err.args = << FmtSString(LastCall.name),
                                      FmtD(Len(LastCall.fn.params)),
                                      FmtD(Len(LastCall.values)) >>

\* C4 as stated: whenever the argument count matches, executeTemplate
\* succeeds with the constructor's result iff the constructor returns exactly
\* one, renderable, value, and otherwise fails with an invalid-signature error
\* naming the component.
C4_Original_CountMatchDecides ==
    CountMatches =>
        /\ LastCall.res.kind = "ok" <=> OneRenderableResult(LastCall.fn)
        /\ ~OneRenderableResult(LastCall.fn) =>
              /\ LastCall.res.kind = "error"
              /\ LastCall.res.err.fmt \in InvalidSignatureFormats
              /\ LastCall.res.err.args = <<FmtSString(LastCall.name)>>

\* C4 (amended): when the argument count matches and every value is
\* assignable to its parameter's type, executeTemplate succeeds and returns
\* the constructor's result iff the constructor returns exactly one value and
\* that value is a renderable component; otherwise it fails with an
\* invalid-signature error naming the component.
C4_SignatureDecides ==
    (CountMatches /\ Assignable(LastCall.fn, LastCall.values)) =>
        /\ LastCall.res.called
        /\ LastCall.res.kind = "ok" <=> OneRenderableResult(LastCall.fn)
        /\ LastCall.res.kind = "ok" =>
              LastCall.res.output = <<"component", LastCall.fn.id, LastCall.values>>
        /\ ~OneRenderableResult(LastCall.fn) =>
              /\ LastCall.res.kind = "error"
              /\ LastCall.res.err.fmt \in InvalidSignatureFormats
              /\ LastCall.res.err.args = <<FmtSString(LastCall.name)>>

\* C4 witness: a two-parameter constructor called with two assignable values
\* has returned its component.
C4_Witness ==
    /\ CountMatches
    /\ Assignable(LastCall.fn, LastCall.values)
    /\ Len(LastCall.values) = 2
    /\ LastCall.res.kind = "ok"

\* C5: for every registry state and every request that reaches the preview
\* router, an unmatched path or an unregistered name is answered 404 with no
\* handler or constructor invoked; a registered name is delegated to exactly
\* that name's handler, ending in 200 on dispatcher success and in 500 with
\* the error text on dispatcher failure.
C5_PreviewRouting ==
    resp.route = "preview" =>
        IF req.entry # <<>>
        THEN LET h == req.entry[1]
             IN /\ resp.handler = req.path[4]
                /\ LastCall.made
                /\ LastCall.name = h.name /\ LastCall.fn = h.f
                /\ Len(LastCall.values) = Len(h.args)
                /\ LastCall.res.kind = "ok" =>
                      resp.status = 200 /\ resp.body = <<"rendered", LastCall.res.output>>
                /\ LastCall.res.kind = "error" =>
                      resp.status = 500 /\ resp.body = <<"error", LastCall.res.err>>
        ELSE /\ resp.status = 404
             /\ resp.handler = ""
             /\ ~LastCall.made

\* C5 witness: with both names registered, a request for one of them was
\* delegated to its handler and ended in 500 on a dispatcher failure.
C5_Witness ==
    /\ resp.route = "preview"
    /\ DOMAIN Handlers = Names
    /\ req.path = <<"/", "storybook_preview", "/", "card">>
    /\ resp.handler = "card"
    /\ LastCall.res.kind = "error"
    /\ resp.status = 500

\* ------------------------------------------------- claims on the pipeline
Failed(ret) == ret \notin {"none", Nil}

\* The install and configure stages of the current run succeeded, no
\* cancellation was seen after either, and the two hashes differ.
ChangeReported ==
    /\ run.installRet = Nil /\ ~run.cancelAtCheck1
    /\ run.confRet = Nil /\ ~run.cancelAtCheck2
    /\ run.before # run.after

\* C6 as stated: the build command runs if and only if install and configure
\* succeeded without cancellation and configure's before-hash differs from its
\* after-hash.
C6_Original_CommandRunsIffChanged ==
    /\ run.buildLaunched => ChangeReported
    /\ (pc = "done" /\ ChangeReported) => run.buildLaunched

\* C6 (amended): the build stage is entered if and only if install and
\* configure succeeded without cancellation and configure reported a change;
\* the build command itself runs if and only if, in addition, its launcher npm
\* is found on the search path; with equal hashes it is never run.
C6_BuildIffChanged ==
    /\ (run.buildEntered \/ pc \in {"build", "build_cmd"}) => ChangeReported
    /\ (pc = "done" /\ ChangeReported) => run.buildEntered
    /\ run.buildLaunched <=>
          (run.buildEntered /\ run.buildRet # "cannot find npm on the path")
    /\ run.before = run.after => ~run.buildLaunched

\* C6 witness: a finished run whose configure stage reported a change and
\* whose build command ran.
C6_Witness ==
    /\ pc = "done"
    /\ ChangeReported
    /\ run.buildLaunched
    /\ run.buildExit = "ok"

\* C7: the configure stage run twice in succession with no registration in
\* between yields the same after-hash both times, so the second run reports
\* no change and the build stage is skipped, whatever order the Config map is
\* visited in.
C7_ConfigureIdempotent ==
    (run.confCompleted /\ run.prevCompleted) =>
        /\ run.after = run.prevAfter
        /\ ~configHasChanged
        /\ ~run.buildEntered /\ pc \notin {"build", "build_cmd"}

\* C7 witness: with two components registered, a second run in succession
\* has finished without entering the build stage.
C7_Witness ==
    /\ run.confCompleted /\ run.prevCompleted
    /\ DOMAIN Config = Names
    /\ pc = "done"
    /\ err = Nil
    /\ ~cancelled

C9_NoStageAfterCancel ==
    /\ (run.configureStarted \/ pc = "configure") => ~run.cancelAtInstallRet
    /\ (run.buildEntered \/ pc \in {"build", "build_cmd"}) =>
          ~run.cancelAtInstallRet /\ ~run.cancelAtConfRet
C9_CommandCompletes ==
    /\ (pc = "install_cmd" /\ pc' # pc) =>
          pc' = "check1" /\ run'.installExit \in CmdExits
    /\ (pc = "build_cmd" /\ pc' # pc) =>
          pc' = "check3" /\ run'.buildExit \in CmdExits
    /\ (cancelled' /\ ~cancelled /\ pc \in {"install_cmd", "build_cmd"}) => pc' = pc
C9_CancelBetweenStages == []C9_NoStageAfterCancel /\ [][C9_CommandCompletes]_vars

\* C9 witness: cancellation was requested while "sb init" ran; the command
\* completed successfully, and Build returned without configuring.
C9_Witness ==
    /\ run.cancelDuringCmd
    /\ run.installExit = "ok"
    /\ run.cancelAtInstallRet
    /\ pc = "done"
    /\ ~run.configureStarted

\* C10: in ListenAndServeWithContext the listener is started only after Build
\* has returned, Build is run exactly once, and when Build returned an error
\* the listener is never started and that error is returned.
C10_ListenAfterBuild ==
    /\ ls.listener # "none" => (pc = "done" /\ err = Nil)
    /\ ls.pc \notin {"none", "building"} => (pc = "done" /\ runs = ls.runsAtEntry + 1)
    /\ ls.pc = "building" => runs = ls.runsAtEntry + 1
    /\ (ls.pc = "returned" /\ err # Nil) => (ls.listener = "none" /\ ls.ret = err)

\* C10 witness: the listener is serving after a Build that ran all three
\* stages.
C10_Witness ==
    /\ ls.listener = "listening"
    /\ run.buildExit = "ok"
    /\ pc = "done"

\* -------------------------------------------------- claims on the listener
\* ListenAndServeWithContext went past Build and started the goroutine.
Serving == ls.listener # "none"

\* The goroutine's ListenAndServe has returned: ls.err holds its error.
GoroutineProduced == ls.listener = "stopped"

\* C11: after a successful Build, ListenAndServeWithContext returns only after
\* the cancellation signal, closes the listener, and returns the error the
\* serving goroutine produced whenever it produced one, under every
\* interleaving of the goroutine and the driver.
C11_ReturnsGoroutineError ==
    (Serving /\ ls.pc = "returned") =>
        /\ cancelled
        /\ ls.closed
        /\ GoroutineProduced => ls.ret = ls.err

\* -------------------------------------------------- claims on the registry
\* C12: after any sequence of AddComponent calls, for every registered name
\* Config[name] and Handlers[name] are the configuration and the handler built
\* by the most recent call for that name; a call for one name leaves the
\* entries of every other name as they were.
C12_LastWriteWins ==
    /\ DOMAIN Config = DOMAIN lastAdd
    /\ DOMAIN Handlers = DOMAIN lastAdd
    /\ \A name \in DOMAIN lastAdd :
          /\ Config[name] = NewConf(name, lastAdd[name].args)
          /\ Handlers[name] = NewHandler(name, lastAdd[name].f, lastAdd[name].args)

\* C12 witness: three calls, of which two were for "button" with different
\* descriptors and one for "card".
C12_Witness ==
    /\ regCount = 3
    /\ DOMAIN Handlers = Names
    /\ Len(Handlers["button"].args) = 3
    /\ Handlers["button"].f.id = "pair"
    /\ Handlers["card"].f.id = "button"
    /\ Config["card"].Args.keys = <<"on">>

\* ------------------------------------------- claims on the object argument
\* The request goroutine g handled has been answered.
Answered(g) == inflight[g].pc = "done"

\* The descriptor's original default value, as the handler holds it.
DescriptorDefault == ObjectHandler.args[1].Value

\* C13: for every sequence of requests to a component with an object
\* argument, a request whose raw value is absent or fails to JSON-decode
\* yields the descriptor's original default value as the extracted argument,
\* whatever earlier requests supplied.
C13_DefaultOnDecodeFailure ==
    \A g \in Goroutines :
        (Answered(g) /\ ~inflight[g].overlapped /\ UnmarshalError(inflight[g].raw) # Nil)
            => inflight[g].values = <<DescriptorDefault>>

\* ------------------------------------------ claims on the integer argument
\* The raw string the last request carried for the integer argument.
RawInt == QueryChars(req.query, "n")

\* A base-10 signed integer: an optional sign and at least one digit.
Unsigned(raw) == IF raw # <<>> /\ raw[1] \in {"+", "-"} THEN Tail(raw) ELSE raw
WellFormedInt(raw) ==
    /\ Unsigned(raw) # <<>>
    /\ \A i \in 1..Len(Unsigned(raw)) : IsDigit(Unsigned(raw)[i])

\* Its value: the digits without leading zeros, and the sign.
RECURSIVE StripZeros(_)
StripZeros(d) == IF d # <<>> /\ d[1] = 0 THEN StripZeros(Tail(d)) ELSE d
ValueOf(raw) ==
    LET mag == StripZeros([i \in 1..Len(Unsigned(raw)) |-> DigitVal(Unsigned(raw)[i])])
    IN [neg |-> raw[1] = "-" /\ mag # <<>>, mag |-> mag]
InInt64(v) == IF v.neg THEN ~MagLess(Cutoff63, v.mag) ELSE MagLess(v.mag, Cutoff63)
ValidInt(raw) == WellFormedInt(raw) /\ InInt64(ValueOf(raw))

\* C14: integer extraction returns the parsed value when the raw string is a
\* valid base-10 signed integer, and 0 for every raw string on which parsing
\* fails: non-numeric text, an empty or absent value, a value outside the
\* 64-bit signed range.
C14_ZeroOnParseFailure ==
    (LastCall.made /\ LastCall.fn = IntConstructor) =>
        IF ValidInt(RawInt)
        THEN LastCall.values = <<GoInt(ValueOf(RawInt))>>
        ELSE LastCall.values = <<GoInt(IntZero)>>

\* -------------------------------------------------------- claims on routing
\* The path has the form {routePrefix}/storybook_preview/{name}.
PreviewForm(prefix, p) ==
    LET base == (IF prefix # <<>> /\ prefix[Len(prefix)] = "/"
                 THEN SubSeq(prefix, 1, Len(prefix) - 1) ELSE prefix)
                \o <<"/", "storybook_preview", "/">>
    IN /\ Len(p) = Len(base) + 1
       /\ SubSeq(p, 1, Len(base)) = base
       /\ p[Len(p)] # "/"

\* C15: every request whose path is not of the form
\* {routePrefix}/storybook_preview/{name} is delegated to the static-file
\* handler and never to the preview router; every request of that form is
\* delegated to the preview router and never to the static-file handler.
C15_RoutingByForm ==
    resp.route # "none" =>
        IF PreviewForm(RoutePrefix, req.path) THEN resp.route = "preview"
        ELSE resp.route = "static"

\* ------------------------------------------- claims on the serialized Conf
\* The configure stage has just written the files of the registry.
JustConfigured == pc = "check2" /\ run.confCompleted

\* The names of the descriptors a component was registered with, in declared
\* order.
DeclaredNames(name) == [i \in 1..Len(lastAdd[name].args) |-> lastAdd[name].args[i].Name]

\* The file written for one component has the shape the claim gives, its
\* stories being objects with the keys storyKeys.
ConfShape(name, storyKeys) ==
    LET f == fs.stories.files[StoryFileName(name)]
    IN /\ DOMAIN f = {"title", "parameters", "args", "argTypes", "stories"}
       /\ f.title = name
       /\ DOMAIN f.parameters = {"server"}
       /\ f.parameters.server.id = f.title
       /\ EmittedKeys(f.args) = DeclaredNames(name)
       /\ EmittedKeys(f.argTypes) = DeclaredNames(name)
       /\ Len(f.stories) >= 1
       /\ f.stories[1].name = "Default"
       /\ \A i \in 1..Len(f.stories) : DOMAIN f.stories[i] = storyKeys

\* C16: the configuration serialized for each registered component is a JSON
\* object with the keys title, parameters (server.id equal to the title),
\* args, argTypes and stories; args and argTypes list the descriptors in
\* declared order, every element of stories is an object with exactly the
\* keys name and args, and the first story is named "Default".
C16_SerializedShape ==
    JustConfigured =>
        \A name \in DOMAIN Config :
            /\ StoryFileName(name) \in DOMAIN fs.stories.files
            /\ ConfShape(name, {"name", "args"})

\* -------------------------------------------- claims on the locked SortedMap
\* The goroutine is between Lock and Unlock.
InCriticalSection(t) == th[t].pc \in {"read", "append", "store", "begin", "loop", "unlock"}

\* The map after the first n Adds applied.
RECURSIVE AfterAdds(_)
AfterAdds(n) ==
    IF n = 0 THEN NewSortedMap
    ELSE SortedMapAdd(AfterAdds(n - 1), addLog[n][1], addLog[n][2])

\* C17: under every interleaving of concurrent Add and MarshalJSON calls the
\* operations exclude one another: no Add is lost (once n Adds are through,
\* keys has length n and every added key has a value), and each MarshalJSON
\* output is that of the map after some prefix of the Adds, never of a
\* partially applied Add.
C17_MutualExclusion ==
    /\ \A t, u \in Threads : (InCriticalSection(t) /\ InCriticalSection(u)) => t = u
    /\ (\A t \in Threads : ~InCriticalSection(t)) =>
          /\ Len(sm.keys) = Len(addLog)
          /\ sm.keys = AddedKeys(Len(addLog))
          /\ \A i \in 1..Len(addLog) : addLog[i][1] \in DOMAIN sm.internal
    /\ out # NoOutput => \E n \in 0..Len(addLog) : out = MarshalJSON(AfterAdds(n))

\* C17 witness: with one Add through, a goroutine holds the lock in the
\* middle of MarshalJSON's loop while the other, calling Add, waits for it.
C17_Witness ==
    /\ Len(addLog) = 1
    /\ \E t, u \in Threads :
          /\ th[t].pc = "loop" /\ th[t].i = 2
          /\ mu = t
          /\ th[u].pc = "lock" /\ th[u].kind = "add"

\* ------------------------------------------------ claims across Build runs
\* The install stage of the current run returned without running "sb init".
InstallSkipped == run.installRet = Nil /\ run.installExit = "none"

\* C18: across any sequence of Build runs that starts with the working
\* directory absent, the install stage skips the initialization command only
\* if the initialization command of an earlier run completed successfully (the
\* scaffold it leaves is on disk); a run that created the directory but whose
\* initializer failed or was not found does not make later runs skip.
C18_SkipOnlyAfterInit ==
    InstallSkipped => fs.scaffold

\* The current run went past the configure stage and skipped the build stage
\* as up-to-date.
BuildSkipped ==
    /\ pc \in {"check3", "done"}
    /\ run.confRet = Nil /\ ~run.cancelAtCheck2
    /\ ~run.buildEntered

\* C19: across any sequence of Build runs, runs cancelled between the
\* configure and build stages and runs whose build command failed included,
\* whenever a run skips the build stage as up-to-date the static bundle on
\* disk was produced by a successful build command run on exactly the story
\* configuration now on disk.
C19_SkipMeansBundleCurrent ==
    BuildSkipped => (fs.bundle.built /\ fs.bundle.from = fs.stories.files)

\* ------------------------------------------ claims on concurrent requests
\* The value a query string that decodes without error spells out: every
\* member stored, in order.
RECURSIVE StoreAll(_, _)
StoreAll(o, members) ==
    IF members = <<>> THEN o ELSE StoreAll(StoreMember(o, Head(members)), Tail(members))
OwnValue(raw) == StoreAll(ZeroObject, ParseObject(raw).fields)

\* C20: when two requests to the same component with an object argument are
\* handled concurrently, each request's constructor is invoked with the value
\* decoded from that request's own query string, under every interleaving;
\* neither observes the value the other supplied.
C20_OwnValuePerRequest ==
    \A g \in Goroutines :
        (Answered(g) /\ UnmarshalError(inflight[g].raw) = Nil)
            => inflight[g].values = <<GoObject(OwnValue(inflight[g].raw))>>

====
